---- MODULE Spec2Model ----
(***************************************************************************)
(* scripts/generate_esp.py: one run of the script, statement by statement. *)
(* Text is a sequence of one-character strings; a file is a sequence of    *)
(* lines; the file system is the set of paths that exist.                  *)
(***************************************************************************)
EXTENDS Integers, Sequences, FiniteSets

VARIABLES
    argv,            \* sys.argv[1:], the command-line arguments
    psi4_installed,  \* whether "import psi4" succeeds
    content,         \* the lines of the input file (without terminators)
    files,           \* the paths that exist now
    files0,          \* the paths that existed when the run started
    pc,              \* position of the run
    status,          \* exit status: 0 unless sys.exit(1) or an uncaught exception
    stdout,          \* what the script printed
    stderr,          \* what the interpreter printed (tracebacks)
    calls,           \* file-system and engine operations, in order
    lines,           \* f.readlines()
    n_atoms,
    geom_lines,
    mol,             \* the string handed to psi4.geometry
    options,         \* the mapping handed to psi4.set_options
    method,          \* the method handed to psi4.energy
    wfn,             \* the wavefunction handle psi4.energy returned
    cube_arg,        \* the handle handed to psi4.cubeprop
    produced         \* whether psi4.cubeprop wrote ESP.cube in this run

vars == <<argv, psi4_installed, content, files, files0, pc, status, stdout,
          stderr, calls, lines, n_atoms, geom_lines, mol, options, method,
          wfn, cube_arg, produced>>

\* ------------------------------------------------------------------ bounds

MaxArgs == 2        \* command lines of 0 .. MaxArgs arguments
MaxDirDepth == 1    \* input paths with 0 .. MaxDirDepth directory components
MaxHeaderLen == 2   \* characters of the first line of the input file
MaxLineLen == 2     \* characters of an atom line
MaxAtomLines == 2   \* lines after the two header lines

\* ------------------------------------------------------------------ text

NL == "\n"
Whitespace == {" ", NL, "\t"}
Digits == {"0", "1", "2", "3", "4", "5", "6", "7", "8", "9"}

RECURSIVE LStrip(_)
LStrip(s) ==
    IF s = <<>> THEN s
    ELSE IF Head(s) \in Whitespace THEN LStrip(Tail(s)) ELSE s

RECURSIVE RStrip(_)
RStrip(s) ==
    IF s = <<>> THEN s
    ELSE IF s[Len(s)] \in Whitespace THEN RStrip(SubSeq(s, 1, Len(s) - 1)) ELSE s

\* variant of Strip: only leading whitespace is removed
StripLeadingOnly(s) == LStrip(s)

\* str.strip()
Strip(s) == RStrip(LStrip(s))

RECURSIVE Join(_, _)
\* sep.join(ls)
Join(ls, sep) ==
    IF ls = <<>> THEN <<>>
    ELSE IF Len(ls) = 1 THEN ls[1]
    ELSE ls[1] \o sep \o Join(Tail(ls), sep)

DigitVal(c) ==
    CASE c = "0" -> 0 [] c = "1" -> 1 [] c = "2" -> 2 [] c = "3" -> 3
      [] c = "4" -> 4 [] c = "5" -> 5 [] c = "6" -> 6 [] c = "7" -> 7
      [] c = "8" -> 8 [] c = "9" -> 9

\* int(s) raises ValueError unless s, less the whitespace around it, is a
\* decimal literal (int() itself ignores surrounding whitespace)
IsIntLiteral(s) ==
    LET t == RStrip(LStrip(s)) IN t # <<>> /\ \A i \in 1..Len(t) : t[i] \in Digits

RECURSIVE DecVal(_)
DecVal(t) ==
    IF t = <<>> THEN 0
    ELSE 10 * DecVal(SubSeq(t, 1, Len(t) - 1)) + DigitVal(t[Len(t)])

\* int(s) for a decimal literal
ParseInt(s) == DecVal(RStrip(LStrip(s)))

\* f.readlines(): every line keeps its terminator
Readlines(c) == [i \in 1..Len(c) |-> c[i] \o <<NL>>]

\* ------------------------------------------------------------------ paths

\* largest index of character c in p, 0 when absent (str.rfind, 1-based)
RFind(p, c) ==
    LET hits == {i \in 1..Len(p) : p[i] = c}
    IN  IF hits = {} THEN 0 ELSE CHOOSE i \in hits : \A j \in hits : j <= i

\* os.path.splitext(p): <<root, ext>>; the extension starts at the last dot
\* of the last component, unless that component has only leading dots
Splitext(p) ==
    LET sepIndex == RFind(p, "/")
        dotIndex == RFind(p, ".")
    IN  IF dotIndex > sepIndex
           /\ \E k \in (sepIndex + 1)..(dotIndex - 1) : p[k] # "."
        THEN <<SubSeq(p, 1, dotIndex - 1), SubSeq(p, dotIndex, Len(p))>>
        ELSE <<p, <<>>>>

\* the part of p after its last separator
Basename(p) == SubSeq(p, RFind(p, "/") + 1, Len(p))

\* the part of p up to and including its last separator
Dirname(p) == SubSeq(p, 1, RFind(p, "/"))

ESP_CUBE == <<"E", "S", "P", ".", "c", "u", "b", "e">>
ESP_SUFFIX == <<"_", "e", "s", "p", ".", "c", "u", "b", "e">>

\* variant of CubeFile: the directory of the input is dropped
CubeFileInCwd(xyz_file) == Splitext(Basename(xyz_file))[1] \o ESP_SUFFIX

\* base_name = os.path.splitext(xyz_file)[0]; cube_file = f"{base_name}_esp.cube"
CubeFile(xyz_file) == Splitext(xyz_file)[1] \o ESP_SUFFIX

\* ------------------------------------------------------------------ engine input

SP4 == <<" ", " ", " ", " ">>

\* the f-string handed to psi4.geometry
GeometrySpec(geom_str) ==
    <<NL>> \o SP4 \o <<"0", " ", "1", NL>> \o SP4 \o geom_str \o <<NL>> \o SP4

\* the mapping handed to psi4.set_options
OPTIONS ==
    [basis |-> "6-31G*", scf_type |-> "df", cubeprop_tasks |-> <<"ESP">>,
     cubic_grid_spacing |-> <<"0.3", "0.3", "0.3">>,
     cubic_grid_overage |-> <<"4.0", "4.0", "4.0">>]

NoOptions ==
    [basis |-> "", scf_type |-> "", cubeprop_tasks |-> <<>>,
     cubic_grid_spacing |-> <<>>, cubic_grid_overage |-> <<>>]

WfnHandles == {"wfn1", "wfn2"}

\* ------------------------------------------------------------------ inputs

XYZ_EXT == <<".", "x", "y", "z">>
DirNames == {<<"d">>, <<"d", ".", "e">>}
Stems == {<<"w">>, <<".", "w">>, <<"w", ".", "t">>}
Exts == {<<>>, XYZ_EXT, <<".">>}

RECURSIVE DirPrefixes(_)
DirPrefixes(k) ==
    IF k = 0 THEN {<<>>}
    ELSE LET prev == DirPrefixes(k - 1)
         IN  prev \cup {d \o <<"/">> \o q : d \in DirNames, q \in prev}

\* relative, normalised paths of files: no empty, "." or ".." component
Paths ==
    LET dirs == DirPrefixes(MaxDirDepth)
    IN  {d \o s \o e : d \in dirs, s \in Stems, e \in Exts}
        \cup {d \o XYZ_EXT : d \in dirs}

WATER_XYZ == <<"w">> \o XYZ_EXT
ExtraPaths == {WATER_XYZ, <<"d", "/">> \o WATER_XYZ}

SeqsUpTo(S, n) == UNION {[1..k -> S] : k \in 0..n}

Argvs ==
    {<<>>} \cup {<<p>> : p \in Paths}
    \cup {a \in SeqsUpTo(ExtraPaths, MaxArgs) : Len(a) >= 2}

HeaderChars == {" ", "H", "1", "2"}
LineChars == {" ", "H"}
COMMENT == <<"c">>

\* input files: nothing, a first line only, or two header lines and atom lines
Contents ==
    LET headers == SeqsUpTo(HeaderChars, MaxHeaderLen)
        atoms == SeqsUpTo(SeqsUpTo(LineChars, MaxLineLen), MaxAtomLines)
    IN  {<<>>} \cup {<<h>> : h \in headers}
        \cup {<<h, COMMENT>> \o a : h \in headers, a \in atoms}

\* a few input files: empty, header only, non-integer count, one atom,
\* more atoms declared than present, fewer declared than present
FewContents ==
    {<<>>,
     <<<<"1">>>>,
     <<<<"H">>, COMMENT, <<"H">>>>,
     <<<<"1">>, COMMENT, <<"H">>>>,
     <<<<"2">>, COMMENT, <<" ", "H">>>>,
     <<<<"1">>, COMMENT, <<"H", " ">>, <<"H">>>>}

InitRun ==
    /\ files0 = files
    /\ pc = "main"
    /\ status = 0
    /\ stdout = <<>>
    /\ stderr = <<>>
    /\ calls = <<>>
    /\ lines = <<>>
    /\ n_atoms = 0
    /\ geom_lines = <<>>
    /\ mol = <<>>
    /\ options = NoOptions
    /\ method = ""
    /\ wfn = ""
    /\ cube_arg = ""
    /\ produced = FALSE

\* the working directory holds any of: the named input file, a stale ESP.cube
InitFiles ==
    files \in SUBSET ((IF Len(argv) >= 1 THEN {argv[1]} ELSE {}) \cup {ESP_CUBE})

\* every command line, a few input files
Init ==
    /\ argv \in Argvs
    /\ psi4_installed \in BOOLEAN
    /\ content \in FewContents
    /\ InitFiles
    /\ InitRun

\* every input file, present and named by the one argument, with the
\* dependency installed; and the few input files under every other condition
InitGeom ==
    /\ argv \in {<<>>, <<WATER_XYZ>>}
    /\ \/ /\ argv = <<WATER_XYZ>>
          /\ psi4_installed = TRUE
          /\ content \in Contents
          /\ files = {WATER_XYZ}
       \/ /\ psi4_installed \in BOOLEAN
          /\ content \in FewContents
          /\ InitFiles
    /\ InitRun

\* ------------------------------------------------------------------ the run

env == <<argv, psi4_installed, content, files0>>
parsed == <<lines, n_atoms, geom_lines>>
engine == <<mol, options, method, wfn, cube_arg, produced>>

MSG_USAGE == "Usage: python generate_esp.py molecule.xyz"
MSG_NOT_FOUND == "Error: File not found: {xyz_file}"
MSG_NO_PSI4 == "Error: Psi4 not installed"
MSG_INSTALL == "Install with: conda install -c conda-forge psi4"
MSG_RUNNING == "Running DFT calculation on {xyz_file}..."
MSG_WAIT == "This may take a few minutes..."
MSG_ENERGY == "SCF Energy: {energy:.6f} Hartree"
MSG_CREATED == "\nESP cube file created: {cube_file}"
MSG_NOW_RUN == "\nNow run:"
MSG_COMMAND == "  ./charge_optimizer {xyz_file} {cube_file}"
MSG_NOT_GENERATED == "\nError: ESP.cube not generated"

\* variant of UsageError: only a missing argument is refused
UsageErrorTooFew == Len(argv) + 1 < 2

\* len(sys.argv) != 2, sys.argv being the script name and argv
UsageError == Len(argv) + 1 # 2

\* variant of PathExists: the check always passes
PathExistsAlways(p) == TRUE

\* os.path.exists(p)
PathExists(p) == p \in files

\* variant of Rename: the source is kept (a copy)
RenameKeepsSource(fs, src, dst) == fs \cup {dst}

\* os.rename(src, dst) on the set of existing paths
Rename(fs, src, dst) == (fs \ {src}) \cup {dst}

\* print(msgs...); sys.exit(1)
Exit1(msgs) ==
    /\ stdout' = stdout \o msgs
    /\ status' = 1
    /\ pc' = "done"
    /\ UNCHANGED stderr

\* an uncaught exception: the interpreter prints a traceback and exits with 1
Raise(exc) ==
    /\ stderr' = Append(stderr, exc)
    /\ status' = 1
    /\ pc' = "done"

MainUsage ==
    /\ pc = "main"
    /\ UsageError
    /\ Exit1(<<MSG_USAGE>>)
    /\ UNCHANGED <<env, files, calls, parsed, engine>>

\* variant of MainNotFound: the dependency is checked before the file
MainNotFoundAfterImport ==
    /\ pc = "main"
    /\ ~UsageError
    /\ ~PathExists(argv[1])
    /\ IF psi4_installed
       THEN /\ calls' = calls \o <<"import", "exists_xyz">>
            /\ Exit1(<<MSG_NOT_FOUND>>)
       ELSE /\ calls' = Append(calls, "import")
            /\ Exit1(<<MSG_NO_PSI4, MSG_INSTALL>>)
    /\ UNCHANGED <<env, files, parsed, engine>>

MainNotFound ==
    /\ pc = "main"
    /\ ~UsageError
    /\ ~PathExists(argv[1])
    /\ calls' = Append(calls, "exists_xyz")
    /\ Exit1(<<MSG_NOT_FOUND>>)
    /\ UNCHANGED <<env, files, parsed, engine>>

MainCall ==
    /\ pc = "main"
    /\ ~UsageError
    /\ PathExists(argv[1])
    /\ calls' = Append(calls, "exists_xyz")
    /\ pc' = "import"
    /\ UNCHANGED <<env, files, status, stdout, stderr, parsed, engine>>

\* variant of ImportError: the messages are printed and the run goes on
ImportErrorNoExit ==
    /\ pc = "import"
    /\ ~psi4_installed
    /\ calls' = calls \o <<"import", "open_xyz">>
    /\ stdout' = stdout \o <<MSG_NO_PSI4, MSG_INSTALL>>
    /\ lines' = Readlines(content)
    /\ pc' = "parse"
    /\ UNCHANGED <<env, files, status, stderr, n_atoms, geom_lines, engine>>

ImportError ==
    /\ pc = "import"
    /\ ~psi4_installed
    /\ calls' = Append(calls, "import")
    /\ Exit1(<<MSG_NO_PSI4, MSG_INSTALL>>)
    /\ UNCHANGED <<env, files, parsed, engine>>

ReadFile ==
    /\ pc = "import"
    /\ psi4_installed
    /\ calls' = calls \o <<"import", "open_xyz">>
    /\ lines' = Readlines(content)
    /\ pc' = "parse"
    /\ UNCHANGED <<env, files, status, stdout, stderr, n_atoms, geom_lines, engine>>

\* which exception lines 35-41 raise on ls, "" when none
ParseException(ls) ==
    IF Len(ls) < 1 THEN "IndexError"
    ELSE IF ~IsIntLiteral(Strip(ls[1])) THEN "ValueError"
    ELSE IF Len(ls) < 2 THEN "IndexError"
    ELSE IF \E i \in 2..(2 + ParseInt(Strip(ls[1])) - 1) : i + 1 > Len(ls)
         THEN "IndexError"
    ELSE ""

\* variant of GeomLines: the loop starts one line early
GeomLinesFromComment(ls, n) == [k \in 1..n |-> Strip(ls[k + 1])]

\* geom_lines after the loop over range(2, 2 + n_atoms)
GeomLines(ls, n) == [k \in 1..n |-> Strip(ls[k + 2])]

ParseFail ==
    /\ pc = "parse"
    /\ ParseException(lines) # ""
    /\ Raise(ParseException(lines))
    /\ UNCHANGED <<env, files, stdout, calls, parsed, engine>>

ParseOk ==
    /\ pc = "parse"
    /\ ParseException(lines) = ""
    /\ n_atoms' = ParseInt(Strip(lines[1]))
    /\ geom_lines' = GeomLines(lines, n_atoms')
    /\ pc' = "geometry"
    /\ UNCHANGED <<env, files, status, stdout, stderr, calls, lines, engine>>

\* psi4.geometry builds the molecule or raises on a specification it rejects
Geometry ==
    /\ pc = "geometry"
    /\ calls' = Append(calls, "geometry")
    /\ mol' = GeometrySpec(Join(geom_lines, <<NL>>))
    /\ \E ok \in BOOLEAN :
          IF ok
          THEN pc' = "set_options" /\ UNCHANGED <<status, stderr>>
          ELSE Raise("psi4 error")
    /\ UNCHANGED <<env, files, stdout, parsed, options, method, wfn, cube_arg, produced>>

\* variant of SetOptions: the cube files are generated next, before any energy
SetOptionsThenCube ==
    /\ pc = "set_options"
    /\ calls' = Append(calls, "set_options")
    /\ options' = OPTIONS
    /\ pc' = "cubeprop"
    /\ UNCHANGED <<env, files, status, stdout, stderr, parsed, mol, method, wfn, cube_arg, produced>>

SetOptions ==
    /\ pc = "set_options"
    /\ calls' = Append(calls, "set_options")
    /\ options' = OPTIONS
    /\ pc' = "energy"
    /\ UNCHANGED <<env, files, status, stdout, stderr, parsed, mol, method, wfn, cube_arg, produced>>

\* psi4.energy returns an energy and a wavefunction handle, or raises
Energy ==
    /\ pc = "energy"
    /\ calls' = Append(calls, "energy")
    /\ method' = "B3LYP"
    /\ \E ok \in BOOLEAN :
          IF ok
          THEN /\ wfn' \in WfnHandles
               /\ stdout' = stdout \o <<MSG_RUNNING, MSG_WAIT, MSG_ENERGY>>
               /\ pc' = "cubeprop"
               /\ UNCHANGED <<status, stderr>>
          ELSE /\ stdout' = stdout \o <<MSG_RUNNING, MSG_WAIT>>
               /\ Raise("psi4 error")
               /\ UNCHANGED wfn
    /\ UNCHANGED <<env, files, parsed, mol, options, cube_arg, produced>>

\* psi4.cubeprop writes ESP.cube into the working directory, or returns
\* without writing it, or raises
Cubeprop ==
    /\ pc = "cubeprop"
    /\ calls' = Append(calls, "cubeprop")
    /\ cube_arg' = wfn
    /\ \E outcome \in {"written", "nothing", "raise"} :
          CASE outcome = "written" ->
                 /\ files' = files \cup {ESP_CUBE}
                 /\ produced' = TRUE
                 /\ pc' = "rename"
                 /\ UNCHANGED <<status, stderr>>
            [] outcome = "nothing" ->
                 /\ pc' = "rename"
                 /\ UNCHANGED <<files, produced, status, stderr>>
            [] outcome = "raise" ->
                 /\ Raise("psi4 error")
                 /\ UNCHANGED <<files, produced>>
    /\ UNCHANGED <<env, stdout, parsed, mol, options, method, wfn>>

RenameCube ==
    /\ pc = "rename"
    /\ PathExists(ESP_CUBE)
    /\ calls' = calls \o <<"exists_esp", "rename">>
    /\ files' = Rename(files, ESP_CUBE, CubeFile(argv[1]))
    /\ stdout' = stdout \o <<MSG_CREATED, MSG_NOW_RUN, MSG_COMMAND>>
    /\ pc' = "done"
    /\ UNCHANGED <<env, status, stderr, parsed, engine>>

NotGenerated ==
    /\ pc = "rename"
    /\ ~PathExists(ESP_CUBE)
    /\ calls' = Append(calls, "exists_esp")
    /\ Exit1(<<MSG_NOT_GENERATED>>)
    /\ UNCHANGED <<env, files, parsed, engine>>

Next ==
    \/ MainUsage
    \/ MainNotFound
    \/ MainCall
    \/ ImportError
    \/ ReadFile
    \/ ParseFail
    \/ ParseOk
    \/ Geometry
    \/ SetOptions
    \/ Energy
    \/ Cubeprop
    \/ RenameCube
    \/ NotGenerated

Spec == Init /\ [][Next]_vars

SpecGeom == InitGeom /\ [][Next]_vars

\* ------------------------------------------------------------------ properties

Range(s) == {s[i] : i \in 1..Len(s)}

IsPrefix(a, b) == Len(a) <= Len(b) /\ a = SubSeq(b, 1, Len(a))

EndsWith(p, suffix) ==
    Len(p) >= Len(suffix) /\ SubSeq(p, Len(p) - Len(suffix) + 1, Len(p)) = suffix

Done == pc = "done"

OneArg == Len(argv) = 1

InputMissing == OneArg /\ argv[1] \notin files0

ErrorMessages == {MSG_USAGE, MSG_NOT_FOUND, MSG_INSTALL, MSG_NOT_GENERATED}

\* the script's last printed line is one of its error messages
ErrorPrinted == stdout # <<>> /\ stdout[Len(stdout)] \in ErrorMessages

EngineOps == {"geometry", "set_options", "energy", "cubeprop"}

IsOrderedOp(c) == c \in EngineOps \cup {"exists_esp", "rename"}

EngineOrder == <<"geometry", "set_options", "energy", "cubeprop", "exists_esp", "rename">>

\* C1 (as amended): a finished run has status 0 or 1; with status 0 it has
\* left, in the directory of the input file, a file named after the input's
\* last component less its extension plus "_esp.cube"; with status 1 it has
\* printed an error message or the interpreter a traceback; a run that has
\* not finished can take a step.
C1_OutputBesideInput ==
    /\ ~Done => ENABLED Next
    /\ Done =>
        /\ status \in {0, 1}
        /\ status = 0 =>
              /\ OneArg
              /\ \E f \in files :
                    /\ Dirname(f) = Dirname(argv[1])
                    /\ Basename(f) = Splitext(Basename(argv[1]))[1] \o ESP_SUFFIX
        /\ status = 1 => (ErrorPrinted \/ stderr # <<>>)

\* C1 (as claimed): with status 0 the file <input_basename>_esp.cube exists
\* in the working directory, whatever directory the input path names.
C1_OutputInWorkingDirectory ==
    Done =>
        /\ status \in {0, 1}
        /\ status = 0 =>
              /\ OneArg
              /\ Splitext(Basename(argv[1]))[1] \o ESP_SUFFIX \in files
        /\ status = 1 => (ErrorPrinted \/ stderr # <<>>)

\* a successful run on a path with a directory component and no extension
C1_Witness ==
    /\ Done /\ status = 0 /\ OneArg
    /\ RFind(argv[1], "/") > 0
    /\ Splitext(argv[1])[2] = <<>>

\* C2: when the engine wrote ESP.cube and the input is <name>.xyz, name
\* ending in a non-empty file name, the finished run has left <name>_esp.cube,
\* ESP.cube is gone, and the status is not 1.
C2_RenamedNotCopied ==
    (Done /\ produced /\ OneArg) =>
        \A k \in 1..Len(argv[1]) :
            LET name == SubSeq(argv[1], 1, k)
            IN  (argv[1] = name \o XYZ_EXT /\ Basename(name) # <<>>) =>
                    /\ name \o ESP_SUFFIX \in files
                    /\ ESP_CUBE \notin files
                    /\ status # 1

\* a finished run on <name>.xyz in which the engine wrote ESP.cube
C2_Witness ==
    /\ Done /\ produced /\ OneArg
    /\ EndsWith(argv[1], XYZ_EXT)
    /\ Len(Basename(argv[1])) > Len(XYZ_EXT)

\* C3 (as claimed): when cube generation returned and the engine wrote no
\* ESP.cube in this run, the run ends with status 1 and no new file whose
\* name ends in _esp.cube, whatever the working directory held before.
C3_NoCubeWithoutEngineOutput ==
    (Done /\ "exists_esp" \in Range(calls) /\ ~produced) =>
        /\ status = 1
        /\ \A f \in files \ files0 : ~EndsWith(f, ESP_SUFFIX)

\* C4: with an argument count other than one, no file is checked or opened,
\* no engine operation is called, no file is created or renamed, and the run
\* ends with status 1 having printed only the usage text.
C4_UsageOnly ==
    ~OneArg =>
        /\ calls = <<>>
        /\ files = files0
        /\ lines = <<>>
        /\ pc \in {"main", "done"}
        /\ Done => (status = 1 /\ stdout = <<MSG_USAGE>>)

\* a finished run with more than one argument
C4_Witness == Done /\ Len(argv) > 1 /\ status = 1

\* C5: with one argument naming a path that does not exist, the only
\* operation is the existence check of that path; the run ends with status 1
\* having printed only the file-not-found message.
C5_NotFoundNoEngine ==
    InputMissing =>
        /\ calls \in {<<>>, <<"exists_xyz">>}
        /\ files = files0
        /\ pc \in {"main", "done"}
        /\ Done => (status = 1 /\ stdout = <<MSG_NOT_FOUND>>)

\* a finished run on a missing input with the dependency installed
C5_Witness == Done /\ InputMissing /\ psi4_installed /\ calls = <<"exists_xyz">>

\* C6: when the dependency cannot be imported, the input file is never
\* opened, no engine operation is called, nothing is renamed, and the run
\* ends with status 1.
C6_NoDependencyNoWork ==
    ~psi4_installed =>
        /\ Range(calls) \cap (EngineOps \cup {"open_xyz", "rename"}) = {}
        /\ lines = <<>>
        /\ files = files0
        /\ Done => status = 1

\* a finished run whose import of the dependency failed
C6_Witness == Done /\ ~psi4_installed /\ "import" \in Range(calls) /\ status = 1

\* the first line of c declares this many atoms
DeclaredAtoms(c) == ParseInt(c[1])

\* c has two header lines, an integer count, and at least that many atom lines
WellFormed(c) ==
    /\ Len(c) >= 2
    /\ IsIntLiteral(c[1])
    /\ Len(c) >= DeclaredAtoms(c) + 2

\* t is s less the whitespace at its two ends
TrimOf(t, s) ==
    /\ \E a, b \in 0..Len(s) :
          /\ a + b <= Len(s)
          /\ t = SubSeq(s, a + 1, Len(s) - b)
          /\ \A i \in 1..a : s[i] \in Whitespace
          /\ \A i \in (Len(s) - b + 1)..Len(s) : s[i] \in Whitespace
    /\ t = <<>> \/ (t[1] \notin Whitespace /\ t[Len(t)] \notin Whitespace)

\* the run got past lines 30-43 of the script
PastParse == "open_xyz" \in Range(calls) /\ pc # "parse"

\* C7 (as amended): for a well-formed file declaring n atoms the engine is
\* handed exactly n lines, the file's lines 3 .. n+2 in order, each less its
\* leading and trailing whitespace, joined by newlines; no later line is
\* included.
C7_GeometryStripped ==
    /\ (PastParse /\ WellFormed(content)) => (stderr = <<>> \/ "geometry" \in Range(calls))
    /\ "geometry" \in Range(calls) =>
          /\ WellFormed(content)
          /\ Len(geom_lines) = DeclaredAtoms(content)
          /\ \A k \in 1..Len(geom_lines) : TrimOf(geom_lines[k], content[k + 2])
          /\ mol = GeometrySpec(Join(geom_lines, <<NL>>))

\* C7 (as claimed): each of the n lines is handed over character for character.
C7_GeometryVerbatim ==
    "geometry" \in Range(calls) =>
        /\ geom_lines = [k \in 1..DeclaredAtoms(content) |-> content[k + 2]]
        /\ mol = GeometrySpec(Join(geom_lines, <<NL>>))

\* two atoms handed over, the first with whitespace at its ends in the file
C7_Witness ==
    /\ "geometry" \in Range(calls)
    /\ Len(geom_lines) = 2
    /\ geom_lines[1] # content[3]
    /\ geom_lines[1] # geom_lines[2]

\* the input file is malformed: too few header lines, a count that is no
\* integer, or fewer atom lines than the count
Malformed(c) == ~WellFormed(c)

\* the run met one of the four error classes
ErrorDetected ==
    \/ ~OneArg
    \/ InputMissing
    \/ ("import" \in Range(calls) /\ ~psi4_installed)
    \/ ("open_xyz" \in Range(calls) /\ Malformed(content))
    \/ ("exists_esp" \in Range(calls) /\ "rename" \notin Range(calls))

\* C8 (as claimed): every one of the four error classes ends the run with
\* status 1 after the script itself printed an error message on standard
\* output, nothing else being reported.
C8_ErrorsHandledAlike ==
    (Done /\ ErrorDetected) =>
        /\ status = 1
        /\ ErrorPrinted
        /\ stderr = <<>>

\* C9: the engine operations, the check for ESP.cube and the rename happen at
\* most once each and in the fixed order; the molecule is built from the
\* parsed geometry, the options are the fixed mapping, the method is B3LYP,
\* and the cube files are generated from the handle the energy returned.
C9_FixedOrder ==
    /\ IsPrefix(SelectSeq(calls, IsOrderedOp), EngineOrder)
    /\ "geometry" \in Range(calls) => mol = GeometrySpec(Join(geom_lines, <<NL>>))
    /\ "set_options" \in Range(calls) => options = OPTIONS
    /\ "energy" \in Range(calls) => method = "B3LYP"
    /\ "cubeprop" \in Range(calls) => (wfn \in WfnHandles /\ cube_arg = wfn)

\* a run that went through every engine operation and the rename
C9_Witness == Done /\ SelectSeq(calls, IsOrderedOp) = EngineOrder

\* C10 (as amended): the existence of the input file is checked before the
\* dependency is imported, so a run with both missing prints the
\* file-not-found message, not the installation hint, and exits with 1.
C10_FileCheckedFirst ==
    /\ \A i \in 1..Len(calls) :
          calls[i] = "import" => \E j \in 1..(i - 1) : calls[j] = "exists_xyz"
    /\ (Done /\ InputMissing /\ ~psi4_installed) =>
          (status = 1 /\ stdout = <<MSG_NOT_FOUND>>)

\* C10 (as claimed): a run with both the dependency and the input file
\* missing prints the installation hint and exits with 1.
C10_DependencyCheckedFirst ==
    (Done /\ InputMissing /\ ~psi4_installed) =>
        (status = 1 /\ stdout = <<MSG_NO_PSI4, MSG_INSTALL>>)

\* a finished run with both the dependency and the input file missing
C10_Witness == Done /\ InputMissing /\ ~psi4_installed

====
